---- MODULE Spec2Model ----
(***************************************************************************)
(* Model of wger/exercises/models/image.py: the ExerciseImage model with   *)
(* its save() and delete() hooks (main-image maintenance and template      *)
(* fragment cache invalidation) and set_author().                          *)
(*                                                                         *)
(* The store is the table of ExerciseImage rows, a function from the ids   *)
(* of the stored rows to their fields.  An operation is one call of        *)
(* save(), delete() or set_author(); it is modelled as one atomic action   *)
(* (a request runs the whole hook).  Text values are sequences of one      *)
(* character strings so that str.split() is computed, not assumed.         *)
(***************************************************************************)
EXTENDS Integers, Sequences, FiniteSets, TLC

VARIABLES
    images,     \* the table: [stored ids -> row]
    lastOp,     \* the last call: which hook, on which instance, from which table
    log,        \* the store / cache calls the last operation made, in order
    record,     \* the in-memory instance set_author() works on
    lastCall,   \* the request handed to set_author(), and the author given
    outbox,     \* the calls of mail.mail_admins made by set_author()
    pc,         \* the submission: "new", "authored", or "raised"
    race        \* two requests inside save(): their positions and instances

storeVars == <<images, lastOp, log>>
authorVars == <<record, lastCall, outbox, pc>>
vars == <<images, lastOp, log, record, lastCall, outbox, pc, race>>

----------------------------------------------------------------------------
(* Bounds *)

MaxImages == 2      \* ids 1..MaxImages in the specification with several bases
NumBases == 2       \* exercise bases 1..NumBases
DeepImages == 4     \* ids 1..DeepImages in the specification with one base
NumLocales == 2     \* rows of Language
RaceImages == 2     \* ids 1..RaceImages in the specification of concurrent saves
AnyImages == 3      \* ids 1..AnyImages in the specification that starts anywhere

Ids == 1..MaxImages
Bases == 1..NumBases
DeepIds == 1..DeepImages
Locales == 1..NumLocales
RaceIds == 1..RaceImages
AnyIds == 1..AnyImages

----------------------------------------------------------------------------
(* AbstractSubmissionModel: the moderation status and the manager *)

STATUS_PENDING == "pending"
STATUS_ACCEPTED == "accepted"
STATUS_DECLINED == "declined"
Statuses == {STATUS_PENDING, STATUS_ACCEPTED, STATUS_DECLINED}

\* ExerciseImage.objects.filter(exercise_base=b): the ids of the rows of base b
OfBase(store, b) == {i \in DOMAIN store : store[i].exercise_base = b}

\* the rows of base b flagged is_main, whatever their status
Mains(store, b) == {i \in OfBase(store, b) : store[i].is_main}

\* ExerciseImage.objects.accepted().filter(exercise_base=b)
Accepted(store, b) == {i \in OfBase(store, b) : store[i].status = STATUS_ACCEPTED}

\* ExerciseImage.objects.accepted().filter(exercise_base=b, is_main=m)
AcceptedMain(store, b, m) == {i \in Accepted(store, b) : store[i].is_main = m}

\* an ordering by descending id
BeforeDescending(store, i, j) ==
    \/ store[i].is_main /\ ~store[j].is_main
    \/ store[i].is_main = store[j].is_main /\ i > j

\* Meta.ordering = ['-is_main', 'id']: i is listed before j
Before(store, i, j) ==
    \/ store[i].is_main /\ ~store[j].is_main
    \/ store[i].is_main = store[j].is_main /\ i < j

\* queryset[0]: the first row of a non-empty queryset in the default ordering
First(store, S) == CHOOSE i \in S : \A j \in S \ {i} : Before(store, i, j)

----------------------------------------------------------------------------
(* Cache invalidation *)

Fragments == <<"muscle-overview", "exercise-overview",
               "exercise-overview-mobile", "equipment-overview">>

Event(ev, fragment, locale, id) ==
    [ev |-> ev, fragment |-> fragment, locale |-> locale, id |-> id]

\* a loop that leaves out the mobile overview
RECURSIVE InvalidateFromSkipping(_)
InvalidateFromSkipping(l) ==
    IF l > NumLocales THEN << >>
    ELSE <<Event("invalidate", "muscle-overview", l, 0),
           Event("invalidate", "exercise-overview", l, 0),
           Event("invalidate", "equipment-overview", l, 0)>>
         \o InvalidateFromSkipping(l + 1)

\* for language in Language.objects.all(): four delete_template_fragment_cache
RECURSIVE InvalidateFrom(_)
InvalidateFrom(l) ==
    IF l > NumLocales THEN << >>
    ELSE [k \in 1..Len(Fragments) |-> Event("invalidate", Fragments[k], l, 0)]
         \o InvalidateFrom(l + 1)

InvalidateAll == InvalidateFrom(1)

----------------------------------------------------------------------------
(* save() *)

Row(self, main) ==
    [exercise_base |-> self.exercise_base, status |-> self.status, is_main |-> main]

\* an update that is never run
ClearMainNothing(store, b) == store

\* an update on the accepted rows only
ClearMainAccepted(store, b) ==
    [i \in DOMAIN store |->
        IF store[i].exercise_base = b /\ store[i].status = STATUS_ACCEPTED
        THEN [store[i] EXCEPT !.is_main = FALSE] ELSE store[i]]

\* an update that is not filtered by exercise base
ClearMainEverywhere(store, b) ==
    [i \in DOMAIN store |-> [store[i] EXCEPT !.is_main = FALSE]]

\* .filter(exercise_base=self.exercise_base).update(is_main=False)
ClearMain(store, b) ==
    [i \in DOMAIN store |->
        IF store[i].exercise_base = b
        THEN [store[i] EXCEPT !.is_main = FALSE] ELSE store[i]]

\* a save that keeps the submitted flag
ResolveMainAsSubmitted(store, self) == self.is_main

\* a save that marks the image only when the base has no accepted image
ResolveMainOnlyWhenEmpty(store, self) ==
    IF self.is_main THEN TRUE
    ELSE Cardinality(Accepted(store, self.exercise_base)) = 0

\* the value self.is_main has when super().save() is reached
ResolveMain(store, self) ==
    IF self.is_main THEN TRUE
    ELSE IF \/ Cardinality(Accepted(store, self.exercise_base)) = 0
            \/ ~(Cardinality(AcceptedMain(store, self.exercise_base, TRUE)) # 0)
         THEN TRUE
         ELSE FALSE

\* super().save(): insert the row, or update the row with this primary key
Persist(store, id, row) ==
    [i \in DOMAIN store \cup {id} |-> IF i = id THEN row ELSE store[i]]

\* the table after self.save()
SaveStore(store, self) ==
    LET cleared == IF self.is_main THEN ClearMain(store, self.exercise_base)
                   ELSE store
    IN Persist(cleared, self.id, Row(self, ResolveMain(store, self)))

\* the calls self.save() makes, in order
SaveLog(self) ==
    (IF self.is_main THEN <<Event("clear_main", "", 0, 0)>> ELSE << >>)
    \o InvalidateAll
    \o <<Event("persist", "", 0, self.id)>>

----------------------------------------------------------------------------
(* delete() *)

\* super().delete()
Remove(store, id) == [i \in DOMAIN store \ {id} |-> store[i]]

\* the condition of "Make sure there is always a main image"
NeedsRepair(store, b) ==
    /\ ~(Cardinality(AcceptedMain(store, b, TRUE)) # 0)
    /\ Cardinality(AcceptedMain(store, b, FALSE)) # 0

\* a repair that looks at the images of every status
PromotedAnyStatus(store, b) ==
    IF AcceptedMain(store, b, TRUE) = {} /\ OfBase(store, b) \ Mains(store, b) # {}
    THEN First(store, OfBase(store, b) \ Mains(store, b)) ELSE 0

\* the id of the image delete() promotes, 0 when it promotes none
Promoted(store, b) ==
    IF NeedsRepair(store, b) THEN First(store, AcceptedMain(store, b, FALSE)) ELSE 0

\* the promoted image as the instance that is re-saved: image.is_main = True
PromotedSelf(store, id) ==
    [id |-> id, exercise_base |-> store[id].exercise_base,
     status |-> store[id].status, is_main |-> TRUE]

\* the table after self.delete()
DeleteStore(store, id) ==
    LET b == store[id].exercise_base
        removed == Remove(store, id)
        p == Promoted(removed, b)
    IN IF p = 0 THEN removed ELSE SaveStore(removed, PromotedSelf(removed, p))

\* a delete that resets the cache before it removes the row
DeleteLogCacheFirst(store, id) ==
    LET b == store[id].exercise_base
        removed == Remove(store, id)
        p == Promoted(removed, b)
    IN InvalidateAll
       \o <<Event("remove", "", 0, id)>>
       \o <<Event("repair_check", "", 0, 0)>>
       \o (IF p = 0 THEN << >> ELSE SaveLog(PromotedSelf(removed, p)))

\* the calls self.delete() makes, in order
DeleteLog(store, id) ==
    LET b == store[id].exercise_base
        removed == Remove(store, id)
        p == Promoted(removed, b)
    IN <<Event("remove", "", 0, id)>>
       \o InvalidateAll
       \o <<Event("repair_check", "", 0, 0)>>
       \o (IF p = 0 THEN << >> ELSE SaveLog(PromotedSelf(removed, p)))

----------------------------------------------------------------------------
(* The operations on the store *)

\* what the table held for base b, apart from row id, when the call began
BaseBefore(store, id, b) ==
    [stored |-> id \in DOMAIN store,
     empty |-> OfBase(store, b) = {},
     acceptedMain |-> AcceptedMain(store, b, TRUE) \ {id} # {},
     otherMain |-> \E i \in Mains(store, b) \ {id} : store[i].status # STATUS_ACCEPTED,
     spare |-> AcceptedMain(store, b, FALSE) \ {id} # {}]

NoOp == [kind |-> "none", id |-> 0, exercise_base |-> 0,
         status |-> STATUS_PENDING, is_main |-> FALSE, promoted |-> 0,
         before |-> [stored |-> FALSE, empty |-> TRUE, acceptedMain |-> FALSE,
                     otherMain |-> FALSE, spare |-> FALSE]]

\* save() of an in-memory instance: a new one, or one loaded and edited
Save(id, b, s, m) ==
    LET self == [id |-> id, exercise_base |-> b, status |-> s, is_main |-> m]
    IN /\ images' = SaveStore(images, self)
       /\ log' = SaveLog(self)
       /\ lastOp' = [kind |-> "save", id |-> id, exercise_base |-> b,
                     status |-> s, is_main |-> m, promoted |-> 0,
                     before |-> BaseBefore(images, id, b)]
       /\ UNCHANGED <<authorVars, race>>

\* delete() of a stored image
Delete(id) ==
    /\ id \in DOMAIN images
    /\ images' = DeleteStore(images, id)
    /\ log' = DeleteLog(images, id)
    /\ lastOp' = [kind |-> "delete", id |-> id,
                  exercise_base |-> images[id].exercise_base,
                  status |-> images[id].status,
                  is_main |-> images[id].is_main,
                  promoted |-> Promoted(Remove(images, id), images[id].exercise_base),
                  before |-> BaseBefore(images, id, images[id].exercise_base)]
    /\ UNCHANGED <<authorVars, race>>

Empty == [i \in {} |-> Row(NoOp, FALSE)]

----------------------------------------------------------------------------
(* save() run by two requests at once: every query, the bulk update and
   super().save() are steps of their own; all images are of base 1 *)

Procs == {"p", "q"}

Idle == [pc |-> "idle", id |-> 0, exercise_base |-> 1, status |-> STATUS_PENDING,
         submitted |-> FALSE, is_main |-> FALSE]

NoRace == [proc |-> [p \in Procs |-> Idle], overlapped |-> FALSE, seen |-> {}]

\* what is wrong with the main image of base b in a table
Anomalies(store, b) ==
    (IF Accepted(store, b) # {} /\ Mains(store, b) = {} THEN {"zero"} ELSE {})
    \cup (IF Cardinality(Mains(store, b)) > 1 THEN {"several"} ELSE {})

\* the bookkeeping of a step of request p that leaves it as self
Raced(p, self, store, begins) ==
    [proc |-> [race.proc EXCEPT ![p] = self],
     overlapped |-> race.overlapped
                    \/ (begins /\ \E q \in Procs \ {p} : race.proc[q].pc # "idle"),
     seen |-> race.seen \cup Anomalies(store, 1)]

\* save() is entered: "if self.is_main" with its bulk update, or the first
\* query of the else branch, whose "or" is not evaluated further when the
\* base has no accepted image
RaceBegin(p, id, s, m) ==
    LET self == [pc |-> "persist", id |-> id, exercise_base |-> 1, status |-> s,
                 submitted |-> m, is_main |-> TRUE]
    IN /\ race.proc[p].pc = "idle"
       /\ images' = IF m THEN ClearMain(images, self.exercise_base) ELSE images
       /\ race' = Raced(p,
              IF m \/ Cardinality(Accepted(images, self.exercise_base)) = 0
              THEN self
              ELSE [self EXCEPT !.pc = "count_main", !.is_main = FALSE],
              images', TRUE)
       /\ UNCHANGED <<lastOp, log, authorVars>>

\* the second query of the else branch, and self.is_main = True
RaceCountMain(p) ==
    LET self == race.proc[p]
    IN /\ self.pc = "count_main"
       /\ race' = Raced(p,
              [self EXCEPT !.pc = "persist",
                  !.is_main = ~(Cardinality(
                      AcceptedMain(images, self.exercise_base, TRUE)) # 0)],
              images, FALSE)
       /\ UNCHANGED <<images, lastOp, log, authorVars>>

\* super().save(); lastOp and log describe whole calls and are not kept here
RacePersist(p) ==
    LET self == race.proc[p]
    IN /\ self.pc = "persist"
       /\ images' = Persist(images, self.id, Row(self, self.is_main))
       /\ race' = Raced(p, Idle, images', FALSE)
       /\ UNCHANGED <<lastOp, log, authorVars>>

----------------------------------------------------------------------------
(* set_author() *)

Usernames == { <<"a", "l">>, <<"b", "o">>, << >> }
Hosts == { <<"w", "g">>,
           <<"w", "g", ":", "8">>,
           <<"1", ".", "2", ":", "8">>,
           <<"[", ":", ":", "1", "]", ":", "8">> }
LicenseAuthors == { << >>, <<"a", "l">>, <<"w", "g">>, <<"x">> }

\* str.split(sep)[0]: the text before the first sep, all of it without sep
SplitFirst(str, sep) ==
    LET at == {k \in 1..Len(str) : str[k] = sep}
    IN IF at = {} THEN str
       ELSE SubSeq(str, 1, (CHOOSE k \in at : \A j \in at : k <= j) - 1)

\* the status a new instance has: AbstractSubmissionModel's default
DefaultStatus == STATUS_PENDING

\* a set_author that takes the host on both paths
AuthorRecordHostAlways(self, req) ==
    [status |-> IF req.has_perm THEN STATUS_ACCEPTED ELSE self.status,
     license_author |->
         IF self.license_author = << >>
         THEN SplitFirst(req.host, ":") ELSE self.license_author]

\* the fields of self when set_author(request) returns
AuthorRecord(self, req) ==
    IF req.has_perm
    THEN [status |-> STATUS_ACCEPTED,
          license_author |->
              IF self.license_author = << >>
              THEN SplitFirst(req.host, ":") ELSE self.license_author]
    ELSE [status |-> self.status,
          license_author |->
              IF self.license_author = << >>
              THEN req.username ELSE self.license_author]

\* a notification that may not fail silently
AuthorMailsLoud(req) ==
    IF req.has_perm THEN << >>
    ELSE <<[subject |-> "New user submitted image", user |-> req.username,
            fail_silently |-> FALSE]>>

\* the calls of mail.mail_admins(subject, message, fail_silently=True)
AuthorMails(req) ==
    IF req.has_perm THEN << >>
    ELSE <<[subject |-> "New user submitted image", user |-> req.username,
            fail_silently |-> TRUE]>>

\* mail.mail_admins raises only when the transport fails and it may not
\* fail silently
MailRaises(mails, transportOk) ==
    \E k \in 1..Len(mails) : ~transportOk /\ ~mails[k].fail_silently

SetAuthor(req, transportOk) ==
    /\ pc = "new"
    /\ record' = AuthorRecord(record, req)
    /\ outbox' = outbox \o [k \in 1..Len(AuthorMails(req)) |->
                     [mail |-> AuthorMails(req)[k], delivered |-> transportOk]]
    /\ pc' = IF MailRaises(AuthorMails(req), transportOk) THEN "raised" ELSE "authored"
    /\ lastCall' = [has_perm |-> req.has_perm, username |-> req.username,
                    host |-> req.host, given |-> record.license_author]
    /\ UNCHANGED <<storeVars, race>>

NoCall == [has_perm |-> FALSE, username |-> << >>, host |-> << >>, given |-> << >>]

\* a new instance, as the form or the serializer built it
InitAuthor ==
    /\ images = Empty
    /\ lastOp = NoOp
    /\ log = << >>
    /\ record \in [status : {DefaultStatus}, license_author : LicenseAuthors]
    /\ lastCall = NoCall
    /\ outbox = << >>
    /\ pc = "new"
    /\ race = NoRace

----------------------------------------------------------------------------
(* Specifications *)

Init ==
    /\ images = Empty
    /\ lastOp = NoOp
    /\ log = << >>
    /\ record = [status |-> DefaultStatus, license_author |-> << >>]
    /\ lastCall = NoCall
    /\ outbox = << >>
    /\ pc = "new"
    /\ race = NoRace

Next ==
    \/ \E id \in Ids, b \in Bases, s \in Statuses, m \in BOOLEAN : Save(id, b, s, m)
    \/ \E id \in Ids : Delete(id)

\* save() and delete() calls on the images of several exercise bases
Spec == Init /\ [][Next]_vars

NextOneBase ==
    \/ \E id \in DeepIds, s \in Statuses, m \in BOOLEAN : Save(id, 1, s, m)
    \/ \E id \in DeepIds : Delete(id)

\* save() and delete() calls on more images, all of one exercise base
SpecOneBase == Init /\ [][NextOneBase]_vars

Requests == [has_perm : BOOLEAN, username : Usernames, host : Hosts]

NextAuthor == \E req \in Requests, transportOk \in BOOLEAN : SetAuthor(req, transportOk)

\* set_author() on a new instance
SpecAuthor == InitAuthor /\ [][NextAuthor]_vars

\* an instance of any status, as a caller may hand it to set_author()
InitAuthorAny ==
    /\ images = Empty
    /\ lastOp = NoOp
    /\ log = << >>
    /\ record \in [status : Statuses, license_author : LicenseAuthors]
    /\ lastCall = NoCall
    /\ outbox = << >>
    /\ pc = "new"
    /\ race = NoRace

\* set_author() on an instance of any status
SpecAuthorAny == InitAuthorAny /\ [][NextAuthor]_vars

NextRace ==
    \/ \E p \in Procs, id \in RaceIds, s \in Statuses, m \in BOOLEAN :
           RaceBegin(p, id, s, m)
    \/ \E p \in Procs : RaceCountMain(p)
    \/ \E p \in Procs : RacePersist(p)

\* two requests saving images of one exercise base, their steps interleaved
SpecRace == Init /\ [][NextRace]_vars

\* every table of images of base 1, those that concurrent saves leave too
Tables ==
    UNION {[S -> [exercise_base : {1}, status : Statuses, is_main : BOOLEAN]] :
              S \in SUBSET AnyIds}

InitAnyStore ==
    /\ images \in Tables
    /\ lastOp = NoOp
    /\ log = << >>
    /\ record = [status |-> DefaultStatus, license_author |-> << >>]
    /\ lastCall = NoCall
    /\ outbox = << >>
    /\ pc = "new"
    /\ race = NoRace

NextAnyStore ==
    \/ \E id \in AnyIds, s \in Statuses, m \in BOOLEAN : Save(id, 1, s, m)
    \/ \E id \in AnyIds : Delete(id)

\* save() and delete() calls, one at a time, starting from any table
SpecAnyStore == InitAnyStore /\ [][NextAnyStore]_vars

----------------------------------------------------------------------------
(* Vocabulary of the properties *)

AllBases == {images[i].exercise_base : i \in DOMAIN images}

IsSave == lastOp.kind = "save"
IsDelete == lastOp.kind = "delete"
IsCreate == IsSave /\ ~lastOp.before.stored

\* the number of delete_template_fragment_cache calls of the last operation
InvalidationCalls == Cardinality({k \in 1..Len(log) : log[k].ev = "invalidate"})

\* the calls of the last operation for one fragment and one locale
CallsFor(f, l) ==
    Cardinality({k \in 1..Len(log) :
        log[k].ev = "invalidate" /\ log[k].fragment = f /\ log[k].locale = l})

EveryFragmentEveryLocale ==
    \A k \in 1..Len(Fragments), l \in Locales : CallsFor(Fragments[k], l) >= 1

Persists == Cardinality({k \in 1..Len(log) : log[k].ev = "persist"})

\* the host of "host" or "host:port", an IPv6 literal being "[...]" or
\* "[...]:port" (what django.http.request.split_domain_port separates)
HostWithoutPort(host) ==
    LET at == {k \in 1..Len(host) : host[k] = ":"}
    IN IF host = << >> \/ at = {} THEN host
       ELSE IF host[Len(host)] = "]" THEN host
       ELSE SubSeq(host, 1, (CHOOSE k \in at : \A j \in at : j <= k) - 1)

----------------------------------------------------------------------------
(* C1: after any sequence of save and delete calls, every exercise base with
   at least one accepted image has exactly one accepted image with is_main. *)
C1_ExactlyOneAcceptedMain ==
    \A b \in AllBases :
        Accepted(images, b) # {} => Cardinality(AcceptedMain(images, b, TRUE)) = 1

(* C2: after any sequence of save and delete calls, every exercise base has
   at most one accepted image with is_main. *)
C2_AtMostOneAcceptedMain ==
    \A b \in AllBases : Cardinality(AcceptedMain(images, b, TRUE)) <= 1

\* a save with is_main of an accepted image took the flag from another
\* accepted image of the base
C2_Witness ==
    /\ IsSave /\ lastOp.is_main /\ lastOp.status = STATUS_ACCEPTED
    /\ lastOp.before.acceptedMain
    /\ Cardinality(Accepted(images, lastOp.exercise_base)) >= 2
    /\ AcceptedMain(images, lastOp.exercise_base, TRUE) = {lastOp.id}

(* C3: after any sequence of save and delete calls, a base with at least one
   accepted image has at most one image with is_main, counted over the
   pending, accepted and declined images together. *)
C3_AtMostOneMainAnyStatus ==
    \A b \in AllBases :
        Accepted(images, b) # {} => Cardinality(Mains(images, b)) <= 1

(* C4: a save that creates an image for a base without any image persists
   it with is_main = TRUE, whatever flag and status were submitted. *)
C4_FirstImageIsMain ==
    [][(/\ lastOp'.kind = "save"
        /\ lastOp'.id \notin DOMAIN images
        /\ OfBase(images, lastOp'.exercise_base) = {})
          => /\ lastOp'.id \in DOMAIN images'
             /\ images'[lastOp'.id].is_main
             /\ images'[lastOp'.id].status = lastOp'.status
             /\ images'[lastOp'.id].exercise_base = lastOp'.exercise_base]_vars

\* the first image of a base was created with the flag not set, declined
C4_Witness ==
    /\ IsCreate /\ lastOp.before.empty
    /\ ~lastOp.is_main /\ lastOp.status = STATUS_DECLINED
    /\ images[lastOp.id].is_main

(* C5: after a save of an instance submitted with is_main, that image is the
   only image of its base, over all statuses, with is_main; every other
   image of the base, the previous main image too, has is_main = FALSE. *)
C5_SubmittedMainIsOnlyMain ==
    (IsSave /\ lastOp.is_main)
        => /\ Mains(images, lastOp.exercise_base) = {lastOp.id}
           /\ \A i \in OfBase(images, lastOp.exercise_base) \ {lastOp.id} :
                  ~images[i].is_main

\* the base had another main image, one not accepted, before the save
C5_Witness ==
    /\ IsSave /\ lastOp.is_main /\ lastOp.before.otherMain
    /\ Cardinality(OfBase(images, lastOp.exercise_base)) >= 2

(* C6: when the main image of a base is deleted while another accepted image
   of the base is not main, exactly one of the remaining images of the base
   has is_main after the delete. *)
C6_DeleteMainLeavesOneMain ==
    [][(/\ lastOp'.kind = "delete"
        /\ lastOp'.id \in DOMAIN images
        /\ images[lastOp'.id].is_main
        /\ AcceptedMain(Remove(images, lastOp'.id),
                        lastOp'.exercise_base, FALSE) # {})
          => Cardinality(Mains(images', lastOp'.exercise_base)) = 1]_vars

(* C7: a delete that leaves the base without accepted image repairs
   nothing: the row is removed, every remaining row is as it was, and no
   image is saved again. *)
C7_NoRepairWithoutAccepted ==
    [][(/\ lastOp'.kind = "delete"
        /\ lastOp'.id \in DOMAIN images
        /\ Accepted(images', lastOp'.exercise_base) = {})
          => /\ images' = Remove(images, lastOp'.id)
             /\ lastOp'.promoted = 0
             /\ Persists' = 0]_vars

\* a main image was deleted and the base keeps only images not accepted,
\* none of them main
C7_Witness ==
    /\ IsDelete /\ lastOp.is_main
    /\ Accepted(images, lastOp.exercise_base) = {}
    /\ OfBase(images, lastOp.exercise_base) # {}
    /\ Mains(images, lastOp.exercise_base) = {}

(* C8: set_author for a user without the add permission leaves the status
   pending, sets license_author to the username when none was given, and
   calls mail_admins exactly once. *)
C8_UntrustedSubmission ==
    [][(pc = "new" /\ pc' # "new" /\ ~lastCall'.has_perm)
          => /\ record'.status = STATUS_PENDING
             /\ (record.license_author = << >>
                    => record'.license_author = lastCall'.username)
             /\ Len(outbox') = Len(outbox) + 1]_vars

\* a named user without the permission submitted without an author
C8_Witness ==
    /\ pc = "authored" /\ ~lastCall.has_perm
    /\ lastCall.given = << >> /\ lastCall.username # << >>
    /\ record.license_author = lastCall.username
    /\ Len(outbox) = 1

(* C9: set_author for a user with the add permission sets the status to
   accepted, sets license_author to the request host without its port when
   none was given, and calls mail_admins not at all. *)
C9_TrustedSubmission ==
    [][(pc = "new" /\ pc' # "new" /\ lastCall'.has_perm)
          => /\ record'.status = STATUS_ACCEPTED
             /\ (record.license_author = << >>
                    => record'.license_author = HostWithoutPort(lastCall'.host))
             /\ Len(outbox') = Len(outbox)]_vars

(* C10 as stated: every save and every delete invalidates each of the four
   fragments for every locale, in exactly 4 * localeCount calls. *)
C10_FourCallsPerLocale ==
    (IsSave \/ IsDelete)
        => /\ EveryFragmentEveryLocale
           /\ InvalidationCalls = 4 * NumLocales

(* C10 amended: every save and every delete invalidates each of the four
   fragments for every locale; a save and a delete that promotes no image
   make exactly 4 * localeCount calls, a delete that promotes an image makes
   exactly 8 * localeCount calls. *)
C10_CallsPerOperation ==
    (IsSave \/ IsDelete)
        => /\ EveryFragmentEveryLocale
           /\ InvalidationCalls =
                  IF IsDelete /\ lastOp.promoted # 0
                  THEN 8 * NumLocales ELSE 4 * NumLocales
           /\ \A k \in 1..Len(Fragments), l \in Locales :
                  CallsFor(Fragments[k], l) =
                      IF IsDelete /\ lastOp.promoted # 0 THEN 2 ELSE 1

\* a delete promoted an image
C10_Witness == IsDelete /\ lastOp.promoted # 0 /\ InvalidationCalls > 0

\* the main image invariant of base b: exactly one accepted main image when
\* the base has an accepted image, at most one main image when it has none
MainInvariant(store, b) ==
    IF Accepted(store, b) # {}
    THEN Cardinality(AcceptedMain(store, b, TRUE)) = 1
    ELSE Cardinality(Mains(store, b)) <= 1

Quiescent == \A p \in Procs : race.proc[p].pc = "idle"

(* C11: with the store operations of two saves on one base interleaved, a
   state with accepted images and no main image and a state with several
   main images are both reached; several accepted main images are reached
   only when the two saves overlapped. *)
C11_SeveralMainsOnlyByRace ==
    Cardinality(AcceptedMain(images, 1, TRUE)) > 1 => race.overlapped

\* both kinds of state were passed through, and both saves have returned
\* leaving two accepted main images
C11_Witness ==
    /\ Quiescent /\ race.overlapped
    /\ race.seen = {"zero", "several"}
    /\ Cardinality(AcceptedMain(images, 1, TRUE)) > 1

(* C12: from any table of a base, also one with no or with several main
   images among its accepted images, a single save of an image of the base
   ends with the main image invariant holding for the base. *)
C12_SaveRestoresInvariant ==
    IsSave => MainInvariant(images, lastOp.exercise_base)

Terminal == {STATUS_ACCEPTED, STATUS_DECLINED}

(* C13: once the status of an image is accepted or declined, neither save
   (which stores the status of the instance it is given), nor delete with
   its repair, nor set_author changes it. *)
C13_TerminalStatusKept ==
    [][/\ record.status \in Terminal => record'.status = record.status
       /\ \A i \in DOMAIN images \cap DOMAIN images' :
              images[i].status \in Terminal
                  => \/ images'[i].status = images[i].status
                     \/ /\ lastOp'.kind = "save" /\ lastOp'.id = i
                        /\ images'[i].status = lastOp'.status]_vars

(* C14: when the notification of an untrusted submission fails, set_author
   returns normally, has called mail_admins once and not again, and leaves
   the status and the license_author it leaves when the mail is sent. *)
C14_MailFailureSwallowed ==
    [][(/\ pc = "new" /\ pc' # "new" /\ ~lastCall'.has_perm
        /\ \E k \in 1..Len(outbox') : ~outbox'[k].delivered)
          => /\ pc' = "authored"
             /\ Len(outbox') = Len(outbox) + 1
             /\ record'.status = record.status
             /\ record'.license_author =
                    IF record.license_author = << >>
                    THEN lastCall'.username ELSE record.license_author]_vars

\* an untrusted submission returned although its mail was not delivered
C14_Witness ==
    /\ pc = "authored" /\ ~lastCall.has_perm
    /\ Len(outbox) = 1 /\ ~outbox[1].delivered
    /\ record.status = STATUS_PENDING

\* the images of base b, other than the deleted one, that a step turns
\* from not main to main
TurnedMain(id, b) ==
    {i \in OfBase(Remove(images, id), b) :
        ~images[i].is_main /\ i \in DOMAIN images' /\ images'[i].is_main}

(* C15: the image a delete promotes is an accepted image of the same base
   that was not main, the one with the smallest id among them; an image
   that is pending or declined is never promoted. *)
C15_PromotesFirstAccepted ==
    [][(lastOp'.kind = "delete" /\ lastOp'.id \in DOMAIN images)
          => LET b == lastOp'.exercise_base
                 spare == AcceptedMain(Remove(images, lastOp'.id), b, FALSE)
             IN /\ \A i \in TurnedMain(lastOp'.id, b) :
                       /\ i \in spare
                       /\ \A j \in spare : i <= j
                /\ Cardinality(TurnedMain(lastOp'.id, b)) <= 1
                /\ lastOp'.promoted # 0
                       => TurnedMain(lastOp'.id, b) = {lastOp'.promoted}]_vars

\* an image was promoted although an image not accepted has a smaller id and
\* another accepted image a greater one
C15_Witness ==
    /\ IsDelete /\ lastOp.promoted # 0
    /\ images[lastOp.promoted].is_main
    /\ \E i \in OfBase(images, lastOp.exercise_base) :
           i < lastOp.promoted /\ images[i].status # STATUS_ACCEPTED
    /\ \E j \in Accepted(images, lastOp.exercise_base) : j > lastOp.promoted

(* C16: a save submitted with is_main = FALSE stores the image as main
   exactly when the table holds no accepted main image of its base at that
   moment, and changes the is_main of no other image. *)
C16_UnflaggedSave ==
    [][(lastOp'.kind = "save" /\ ~lastOp'.is_main)
          => /\ DOMAIN images' = DOMAIN images \cup {lastOp'.id}
             /\ images'[lastOp'.id].is_main =
                    (AcceptedMain(images, lastOp'.exercise_base, TRUE) = {})
             /\ \A i \in DOMAIN images \ {lastOp'.id} :
                    images'[i] = images[i]]_vars

\* an unflagged save was stored as main in a base that has other accepted
\* images, none of them main
C16_Witness ==
    /\ IsSave /\ ~lastOp.is_main
    /\ lastOp.before.spare /\ ~lastOp.before.acceptedMain
    /\ images[lastOp.id].is_main

\* entries from..to of the log are one pass over all locales and fragments
IsPass(from) ==
    \A l \in Locales, k \in 1..Len(Fragments) :
        LET e == log[from + (l - 1) * Len(Fragments) + (k - 1)]
        IN e.ev = "invalidate" /\ e.locale = l /\ e.fragment = Fragments[k]

PassLen == Len(Fragments) * NumLocales

(* C17: a delete removes the row, then runs one invalidation pass, then the
   repair check; a promotion re-saves the image, which runs a second pass
   before it persists: two passes (8 * localeCount calls) with a promotion,
   one pass without. *)
C17_DeleteOrder ==
    IsDelete
        => /\ Len(log) >= PassLen + 2
           /\ log[1].ev = "remove" /\ log[1].id = lastOp.id
           /\ IsPass(2)
           /\ log[PassLen + 2].ev = "repair_check"
           /\ IF lastOp.promoted # 0
              THEN /\ Len(log) = 2 * PassLen + 4
                   /\ log[PassLen + 3].ev = "clear_main"
                   /\ IsPass(PassLen + 4)
                   /\ log[2 * PassLen + 4].ev = "persist"
                   /\ log[2 * PassLen + 4].id = lastOp.promoted
                   /\ InvalidationCalls = 8 * NumLocales
              ELSE /\ Len(log) = PassLen + 2
                   /\ InvalidationCalls = 4 * NumLocales

\* a delete that promoted an image and made its calls
C17_Witness ==
    /\ IsDelete /\ lastOp.promoted # 0
    /\ Len(log) = 2 * PassLen + 4
    /\ images[lastOp.promoted].is_main

(* C18: a save or a delete of an image of base B changes, adds and removes
   no other image that belongs to a different base. *)
C18_OtherBasesUntouched ==
    [][(lastOp'.kind \in {"save", "delete"} /\ lastOp' # lastOp)
          => /\ \A i \in DOMAIN images \ {lastOp'.id} :
                    images[i].exercise_base # lastOp'.exercise_base
                        => i \in DOMAIN images' /\ images'[i] = images[i]
             /\ \A i \in DOMAIN images' \ {lastOp'.id} :
                    images'[i].exercise_base # lastOp'.exercise_base
                        => i \in DOMAIN images]_vars

\* an image was saved with is_main while an image of another base is main
C18_Witness ==
    /\ IsSave /\ lastOp.is_main
    /\ \E i \in DOMAIN images :
           /\ images[i].exercise_base # lastOp.exercise_base
           /\ images[i].is_main

(* C19: saving an instance again right after it was saved, with the is_main
   the first save left on it, leaves the is_main of every image of the base
   as the first save left it. *)
C19_SaveIdempotent ==
    IsSave
        => LET again == SaveStore(images,
                            [id |-> lastOp.id,
                             exercise_base |-> lastOp.exercise_base,
                             status |-> lastOp.status,
                             is_main |-> images[lastOp.id].is_main])
           IN \A i \in OfBase(images, lastOp.exercise_base) :
                  again[i].is_main = images[i].is_main

====
